---------------------------- MODULE Spec2Model ----------------------------
(***************************************************************************)
(* A model of the lwthread runtime: the ready queue (queue.c), the task     *)
(* object and its entry trampoline (thread.c), the worker loop and          *)
(* add_thread (scheduler.c) and the public API (lwthread.c).                *)
(*                                                                          *)
(* Granularity.  A critical section of the scheduler mutex is one atomic    *)
(* action; the scheduler mutex is therefore free between any two actions.   *)
(* Everything the source does outside that mutex is a step of its own: the  *)
(* state write and the queue push of lwt_scheduler_add_thread (which takes  *)
(* only the queue's own mutex), the unlocked reads of running_flag, and     *)
(* every swapcontext that follows an unlock.                                *)
(*                                                                          *)
(* Two specifications.  Spec is the source as written: the worker's local   *)
(* `scheduler` (scheduler.c:19) is NULL and nothing assigns it, so a worker *)
(* only ever executes lines 26-30.  SpecBound is the same code with that    *)
(* local bound to the scheduler when the worker starts, which makes         *)
(* lines 31-50 and all task code reachable; the claims about dispatch are   *)
(* settled against it, and what it shows is conditional on that binding.    *)
(***************************************************************************)
EXTENDS Integers, Sequences, FiniteSets, TLC

\* ---------------------------------------------------------------- bounds
NumWorkers == 2     \* num_workers given to lwt_scheduler_create
MaxTasks == 3       \* lwt_create calls that are made in one run
MaxOps == 1         \* yield/join/sleep calls one entry function makes
NumCallers == 2     \* OS threads outside the runtime that call the API
MaxStarts == 2      \* OS threads of one worker id that are followed one by one

NULL == 0

\* scheduler.h: the size of the scheduler's per-worker arrays.
LWT_MAX_WORKERS == 64

Tasks == 1 .. MaxTasks
Callers == 1 .. NumCallers
\* The OS thread of worker w, as the caller of an API function that the task
\* it runs calls.
TaskCaller(w) == NumCallers + 1 + w
\* Every OS thread that can be inside an API call.
ApiThreads == 1 .. (NumCallers + MaxStarts * NumWorkers)
NoWorker == 0 - 1

VARIABLES
    \* struct lwt_thread, per task slot ("NONE": not allocated yet); stack is
    \* the block malloc gave for the task's stack, NULL when there is none
    state, next, waiting, id, ctx, stack, ops,
    \* struct lwt_thread_queue
    head, tail, count, qmutex,
    \* struct lwt_scheduler
    running_flag, next_thread_id, running, num_workers, worker_ids,
    \* workers[i]: the OS thread the last pthread_create for worker id i made;
    \* main_contexts[i]: the OS thread whose dispatch loop the context saved
    \* in main_contexts[i] belongs to (NoWorker: none yet)
    workers, main_contexts,
    \* per worker id, the OS threads running lwt_worker_function with that id
    nthreads,
    \* the application's lwt_scheduler_t* : "valid" once lwt_scheduler_create has
    \* returned the scheduler, "freed" once lwt_scheduler_destroy has freed it
    handle,
    \* a worker OS thread: its position, its local `scheduler`, its
    \* thread-local current_thread, and the join target of the call in progress
    wpc, wsched, cur, warg,
    \* an API caller (an OS thread that is not a worker)
    cpc, carg, ctl,
    \* number of task slots handed out by malloc in lwt_create
    ntasks,
    \* whether pthread_create's worker ends up with its scheduler (source: no)
    bound,
    \* the process died on a NULL dereference
    crashed,
    \* history: the tasks pushed to the ready queue and not popped since, in
    \* the order of the pushes
    pushed

vars == << state, next, waiting, id, ctx, stack, ops, head, tail, count, qmutex,
           running_flag, next_thread_id, running, wpc, wsched, cur, warg,
           cpc, carg, ctl, ntasks, bound, crashed, pushed, num_workers,
           nthreads, handle, worker_ids, workers, main_contexts >>

\* The worker ids in use: worker_ids[0 .. num_workers - 1].
WorkerIds == 0 .. (num_workers - 1)

\* The OS threads that run lwt_worker_function.  Thread w was created by the
\* loop pass i = w % num_workers of lwt_scheduler_start; the threads i and
\* i + num_workers are two threads made for the same i by two starts.
Workers == 0 .. (MaxStarts * num_workers - 1)

\* lwt_worker_function, line 18: worker_id = *(int*)arg, where arg is
\* &scheduler->worker_ids[i].
IdOf(w) == worker_ids[w % num_workers]

\* What the steps of lwt_create, lwt_scheduler_stop and of a running task
\* leave alone.
cfgVars == << bound, num_workers, handle, worker_ids, workers, main_contexts >>

thrVars == << state, next, waiting, id, ctx, stack, ops >>
queueVars == << head, tail, count, pushed >>
callerVars == << cpc, carg, ctl >>

\* Positions of a worker while it executes a task's code on the task's stack.
TaskPcs == {"func", "yswap", "jswap", "sleeping", "sswap", "fyield", "fswap"}
\* Positions at which only the final swapcontext of a suspension is left.
SwapPcs == {"yswap", "jswap", "sswap", "fswap"}

\* --------------------------------------------------------------- queue.c
\* The tasks linked from head, in order, following at most MaxTasks + 1 links
\* (one more than there are tasks, so that a task linked twice shows up twice).
RECURSIVE Chain(_, _, _)
Chain(nx, h, k) ==
    IF h = NULL \/ k = 0 THEN << >> ELSE << h >> \o Chain(nx, nx[h], k - 1)

QueueSeq == Chain(next, head, MaxTasks + 1)
InQueue(t) == \E i \in 1 .. Len(QueueSeq) : QueueSeq[i] = t

\* lwt_queue_push_locked linking the task in front of head instead of behind
\* tail.
PushLocked_AtHead(q, t) ==
    [head |-> t, tail |-> IF q.tail = NULL THEN t ELSE q.tail,
     count |-> q.count + 1, next |-> [q.next EXCEPT ![t] = q.head]]

\* lwt_queue_push_locked on the queue q = [head, tail, count, next].
PushLocked(q, t) ==
    LET n1 == [q.next EXCEPT ![t] = NULL] IN
    IF q.tail = NULL
    THEN [head |-> t, tail |-> t, count |-> q.count + 1, next |-> n1]
    ELSE [head |-> q.head, tail |-> t, count |-> q.count + 1,
          next |-> [n1 EXCEPT ![q.tail] = t]]

\* lwt_queue_pop_locked without queue.c:77 (head is not advanced): the popped
\* task stays linked, and its next push links it a second time.
PopLocked_KeepsHead(q) ==
    [head |-> q.head, tail |-> q.tail, count |-> q.count - 1, next |-> q.next]

\* lwt_queue_pop_locked on a queue whose head is not NULL.
PopLocked(q) ==
    LET t == q.head
        h == q.next[t] IN
    [head |-> h, tail |-> IF h = NULL THEN NULL ELSE q.tail,
     count |-> q.count - 1, next |-> [q.next EXCEPT ![t] = NULL]]

Q == [head |-> head, tail |-> tail, count |-> count, next |-> next]

SetQueue(q) ==
    /\ head' = q.head
    /\ tail' = q.tail
    /\ count' = q.count
    /\ next' = q.next

\* The sequence sq without its first occurrence of t.
RECURSIVE Without(_, _)
Without(sq, t) ==
    IF sq = << >> THEN << >>
    ELSE IF Head(sq) = t THEN Tail(sq)
    ELSE << Head(sq) >> \o Without(Tail(sq), t)

\* ------------------------------------------------------------- condvar
Waiters == {w \in Workers : wpc[w] = "wait"}

\* pthread_cond_signal wakes one waiter if there is one.
SignalChoices == IF Waiters = {} THEN {NoWorker} ELSE Waiters

Woken(wp, wk) == IF wk = NoWorker THEN wp ELSE [wp EXCEPT ![wk] = "top"]

\* ---------------------------------------------------------------- Init
InitCommon ==
    /\ state = [t \in Tasks |-> "NONE"]
    /\ next = [t \in Tasks |-> NULL]
    /\ waiting = [t \in Tasks |-> NULL]
    /\ id = [t \in Tasks |-> 0]
    /\ ctx = [t \in Tasks |-> [pos |-> "none", tgt |-> NULL]]
    /\ stack = [t \in Tasks |-> NULL]
    /\ ops = [t \in Tasks |-> 0]
    /\ head = NULL /\ tail = NULL /\ count = 0 /\ qmutex = NULL
    /\ running_flag = FALSE
    /\ next_thread_id = 1
    /\ nthreads = [i \in WorkerIds |-> 0]
    /\ running = [i \in WorkerIds |-> NULL]
    /\ workers = [i \in WorkerIds |-> NoWorker]
    /\ main_contexts = [i \in WorkerIds |-> NoWorker]
    /\ wpc = [w \in Workers |-> "off"]
    /\ wsched = [w \in Workers |-> FALSE]
    /\ cur = [w \in Workers |-> NULL]
    /\ warg = [w \in Workers |-> NULL]
    /\ cpc = [c \in ApiThreads |-> "idle"]
    /\ carg = [c \in ApiThreads |-> NULL]
    /\ ctl = [c \in ApiThreads |-> NULL]
    /\ ntasks = 0
    /\ crashed = FALSE
    /\ pushed = << >>
    /\ handle = "valid"
    /\ worker_ids = [i \in WorkerIds |-> i]

\* Before lwt_scheduler_create: no scheduler; what malloc will hand out is
\* not initialised.
InitCreate ==
    /\ num_workers = 0
    /\ handle = "none"
    /\ running_flag \in BOOLEAN
    /\ next_thread_id \in {0, 1}
    /\ count \in {0, 1}
    /\ head = NULL /\ tail = NULL /\ qmutex = NULL
    /\ state = [t \in Tasks |-> "NONE"]
    /\ next = [t \in Tasks |-> NULL]
    /\ waiting = [t \in Tasks |-> NULL]
    /\ id = [t \in Tasks |-> 0]
    /\ ctx = [t \in Tasks |-> [pos |-> "none", tgt |-> NULL]]
    /\ stack = [t \in Tasks |-> NULL]
    /\ ops = [t \in Tasks |-> 0]
    /\ running = << >> /\ worker_ids = << >> /\ nthreads = << >>
    /\ workers = << >> /\ main_contexts = << >>
    /\ wpc = << >> /\ wsched = << >> /\ cur = << >> /\ warg = << >>
    /\ cpc = [c \in ApiThreads |-> "idle"]
    /\ carg = [c \in ApiThreads |-> NULL]
    /\ ctl = [c \in ApiThreads |-> NULL]
    /\ ntasks = 0
    /\ crashed = FALSE
    /\ pushed = << >>
    /\ bound = FALSE

\* The argument test with num_threads >= LWT_MAX_WORKERS as its upper part.
CreateRejects_OffByOne(n) == n <= 0 \/ n >= LWT_MAX_WORKERS

\* lwt_scheduler_create, line 19 (and lwt_scheduler_init, line 56): the
\* argument test.
CreateRejects(n) == n <= 0 \/ n > LWT_MAX_WORKERS

\* lwt_scheduler_create(n), lwthread.c:18-36, with lwt_scheduler_init and
\* lwt_queue_init; ok = FALSE when malloc or an init call fails.
SchedulerCreate(c, n, ok) ==
    /\ ~crashed /\ cpc[c] = "idle" /\ handle = "none"
    /\ IF CreateRejects(n) \/ ~ok
       THEN /\ handle' = "null"
            /\ UNCHANGED << queueVars, next, qmutex, running_flag,
                            next_thread_id, running, num_workers, worker_ids,
                            workers, main_contexts, wpc, wsched, nthreads,
                            cur, warg >>
       ELSE /\ handle' = "valid"
            /\ num_workers' = n
            /\ running_flag' = FALSE
            /\ next_thread_id' = 1
            /\ head' = NULL /\ tail' = NULL /\ count' = 0 /\ qmutex' = NULL
            /\ running' = [w \in 0 .. (n - 1) |-> NULL]
            /\ worker_ids' = [w \in 0 .. (n - 1) |-> w]
            /\ nthreads' = [w \in 0 .. (n - 1) |-> 0]
            /\ workers' = [w \in 0 .. (n - 1) |-> NoWorker]
            /\ main_contexts' = [w \in 0 .. (n - 1) |-> NoWorker]
            /\ wpc' = [w \in 0 .. (MaxStarts * n - 1) |-> "off"]
            /\ wsched' = [w \in 0 .. (MaxStarts * n - 1) |-> FALSE]
            /\ cur' = [w \in 0 .. (MaxStarts * n - 1) |-> NULL]
            /\ warg' = [w \in 0 .. (MaxStarts * n - 1) |-> NULL]
            /\ UNCHANGED << next, pushed >>
    /\ UNCHANGED << state, waiting, id, ctx, stack, ops, callerVars, ntasks, bound,
                    crashed >>

\* The state after lwt_scheduler_create(NumWorkers), source as written.
Init == num_workers = NumWorkers /\ InitCommon /\ bound = FALSE

\* The same, with the worker's `scheduler` local going to be bound.
InitBound == num_workers = NumWorkers /\ InitCommon /\ bound = TRUE

\* ------------------------------------------------- lwthread.c: callers
\* lwt_scheduler_start with line 56 moved in front of the lock of line 55.
StartCheck_SetsFlag(c) ==
    /\ ~crashed /\ cpc[c] = "idle" /\ handle = "valid"
    /\ ~running_flag
    /\ running_flag' = TRUE
    /\ cpc' = [cpc EXCEPT ![c] = "start_set"]
    /\ UNCHANGED << thrVars, queueVars, qmutex, next_thread_id, running, wpc,
                    wsched, nthreads, cur, warg, carg, ctl, ntasks, cfgVars,
                    crashed >>

\* lwt_scheduler_start, line 51: the unlocked check of running_flag.
StartCheck(c) ==
    /\ ~crashed /\ cpc[c] = "idle" /\ handle = "valid"
    /\ ~running_flag
    /\ cpc' = [cpc EXCEPT ![c] = "start_set"]
    /\ UNCHANGED << thrVars, queueVars, qmutex, running_flag, next_thread_id,
                    running, wpc, wsched, nthreads, cur, warg, carg, ctl, ntasks, cfgVars,
                    crashed >>

\* lwt_scheduler_start, lines 51-53: running_flag reads 1 and the call returns.
StartRunning(c) ==
    /\ ~crashed /\ cpc[c] = "idle" /\ handle = "valid"
    /\ running_flag
    /\ cpc' = [cpc EXCEPT ![c] = "start_ret"]
    /\ UNCHANGED << thrVars, queueVars, qmutex, running_flag, next_thread_id,
                    running, wpc, wsched, nthreads, cur, warg, carg, ctl,
                    ntasks, cfgVars, crashed >>

StartReturn(c) ==
    /\ ~crashed /\ cpc[c] = "start_ret"
    /\ cpc' = [cpc EXCEPT ![c] = "idle"]
    /\ UNCHANGED << thrVars, queueVars, qmutex, running_flag, next_thread_id,
                    running, wpc, wsched, nthreads, cur, warg, carg, ctl,
                    ntasks, cfgVars, crashed >>

\* lwt_scheduler_start, line 60: the OS thread pthread_create makes for worker
\* id i.  A thread record whose thread has ended is used again; when the
\* thread of an earlier start still runs, the new thread is followed in the
\* next record for i, and in the last one when all are taken.
Created(i) ==
    LET free == {k \in 0 .. (MaxStarts - 1) :
                    wpc[i + k * num_workers] \in {"off", "exited"}} IN
    IF free = {} THEN i + (MaxStarts - 1) * num_workers
    ELSE i + num_workers * (CHOOSE k \in free : \A l \in free : k <= l)

\* Thread w is one that a full run of the loop of lines 58-62 creates.
Made(w) == w = Created(w % num_workers)

\* lwt_scheduler_start with workers whose `scheduler` local is assigned the
\* scheduler.
StartSet_BindsScheduler(c) ==
    /\ ~crashed /\ cpc[c] = "start_set"
    /\ running_flag' = TRUE
    /\ wpc' = [w \in Workers |-> IF Made(w) THEN "top" ELSE wpc[w]]
    /\ wsched' = [w \in Workers |-> IF Made(w) THEN TRUE ELSE wsched[w]]
    /\ cur' = [w \in Workers |-> IF Made(w) THEN NULL ELSE cur[w]]
    /\ workers' = [i \in WorkerIds |-> Created(i)]
    /\ nthreads' = [i \in WorkerIds |-> nthreads[i] + 1]
    /\ cpc' = [cpc EXCEPT ![c] = "idle"]
    /\ UNCHANGED << thrVars, queueVars, qmutex, next_thread_id, running, warg,
                    carg, ctl, ntasks, bound, num_workers, handle, worker_ids,
                    main_contexts, crashed >>

\* lwt_scheduler_start, lines 55-62: set the flag, create the workers; each
\* worker (scheduler.c:17-25) starts with scheduler = NULL in the source.
StartSet(c) ==
    /\ ~crashed /\ cpc[c] = "start_set"
    /\ running_flag' = TRUE
    /\ wpc' = [w \in Workers |-> IF Made(w) THEN "top" ELSE wpc[w]]
    /\ wsched' = [w \in Workers |-> IF Made(w) THEN bound ELSE wsched[w]]
    /\ cur' = [w \in Workers |-> IF Made(w) THEN NULL ELSE cur[w]]
    /\ workers' = [i \in WorkerIds |-> Created(i)]
    /\ nthreads' = [i \in WorkerIds |-> nthreads[i] + 1]
    /\ cpc' = [cpc EXCEPT ![c] = "idle"]
    /\ UNCHANGED << thrVars, queueVars, qmutex, next_thread_id, running, warg,
                    carg, ctl, ntasks, bound, num_workers, handle, worker_ids,
                    main_contexts, crashed >>

\* lwt_scheduler_start, lines 55-62, when pthread_create fails for worker i
\* (EAGAIN): line 60 drops the result, the loop goes on, and the call, which
\* is void, returns as it does after a full start.
StartSetFails(c, i) ==
    /\ ~crashed /\ cpc[c] = "start_set"
    /\ running_flag' = TRUE
    /\ wpc' = [w \in Workers |->
                  IF Made(w) /\ w % num_workers # i THEN "top" ELSE wpc[w]]
    /\ wsched' = [w \in Workers |->
                     IF Made(w) /\ w % num_workers # i THEN bound ELSE wsched[w]]
    /\ cur' = [w \in Workers |->
                  IF Made(w) /\ w % num_workers # i THEN NULL ELSE cur[w]]
    /\ workers' = [j \in WorkerIds |-> IF j = i THEN workers[j] ELSE Created(j)]
    /\ nthreads' = [j \in WorkerIds |->
                       IF j = i THEN nthreads[j] ELSE nthreads[j] + 1]
    /\ cpc' = [cpc EXCEPT ![c] = "idle"]
    /\ UNCHANGED << thrVars, queueVars, qmutex, next_thread_id, running, warg,
                    carg, ctl, ntasks, bound, num_workers, handle, worker_ids,
                    main_contexts, crashed >>

\* lwt_scheduler_stop, line 67: the unlocked check of running_flag.
StopCheck(c) ==
    /\ ~crashed /\ cpc[c] = "idle" /\ handle = "valid"
    /\ running_flag
    /\ cpc' = [cpc EXCEPT ![c] = "stop_set"]
    /\ UNCHANGED << thrVars, queueVars, qmutex, running_flag, next_thread_id,
                    running, wpc, wsched, nthreads, cur, warg, carg, ctl, ntasks, cfgVars,
                    crashed >>

\* lwt_scheduler_stop without the test of line 67: the call goes on to clear
\* the flag, broadcast and join.
StopNotRunning_NoTest(c) ==
    /\ ~crashed /\ cpc[c] = "idle" /\ handle = "valid"
    /\ ~running_flag
    /\ cpc' = [cpc EXCEPT ![c] = "stop_set"]
    /\ UNCHANGED << thrVars, queueVars, qmutex, running_flag, next_thread_id,
                    running, wpc, wsched, nthreads, cur, warg, carg, ctl,
                    ntasks, cfgVars, crashed >>

\* lwt_scheduler_stop, lines 67-69: running_flag reads 0 and the call returns.
StopNotRunning(c) ==
    /\ ~crashed /\ cpc[c] = "idle" /\ handle = "valid"
    /\ ~running_flag
    /\ cpc' = [cpc EXCEPT ![c] = "stop_ret"]
    /\ UNCHANGED << thrVars, queueVars, qmutex, running_flag, next_thread_id,
                    running, wpc, wsched, nthreads, cur, warg, carg, ctl,
                    ntasks, cfgVars, crashed >>

StopReturn(c) ==
    /\ ~crashed /\ cpc[c] = "stop_ret"
    /\ cpc' = [cpc EXCEPT ![c] = "idle"]
    /\ UNCHANGED << thrVars, queueVars, qmutex, running_flag, next_thread_id,
                    running, wpc, wsched, nthreads, cur, warg, carg, ctl,
                    ntasks, cfgVars, crashed >>

\* lwt_scheduler_stop, lines 72-75: clear the flag and broadcast.
StopSet(c) ==
    /\ ~crashed /\ cpc[c] \in {"stop_set", "dstop_set"}
    /\ running_flag' = FALSE
    /\ wpc' = [w \in Workers |-> IF wpc[w] = "wait" THEN "top" ELSE wpc[w]]
    /\ cpc' = [cpc EXCEPT ![c] = IF @ = "stop_set" THEN "stop_join"
                                 ELSE "dstop_join"]
    /\ UNCHANGED << thrVars, queueVars, qmutex, next_thread_id, running,
                    wsched, nthreads, cur, warg, carg, ctl, ntasks, cfgVars, crashed >>

\* lwt_scheduler_stop, lines 78-80: pthread_join returns for every worker.
StopJoin(c) ==
    /\ ~crashed /\ cpc[c] \in {"stop_join", "dstop_join"}
    /\ \A i \in WorkerIds :
          workers[i] # NoWorker /\ wpc[workers[i]] = "exited"
    /\ cpc' = [cpc EXCEPT ![c] = IF @ = "stop_join" THEN "idle"
                                 ELSE "destroy_cleanup"]
    /\ UNCHANGED << thrVars, queueVars, qmutex, running_flag, next_thread_id,
                    running, wpc, wsched, nthreads, cur, warg, carg, ctl, ntasks, cfgVars,
                    crashed >>

\* lwt_scheduler_destroy, lines 40-44, and the check of lwt_scheduler_stop
\* (line 67) it starts with.  The application destroys the scheduler when no
\* other OS thread is inside a call on it.
DestroyStop(c) ==
    /\ ~crashed /\ cpc[c] = "idle" /\ handle = "valid"
    /\ \A d \in Callers : cpc[d] = "idle"
    /\ cpc' = [cpc EXCEPT ![c] = IF running_flag THEN "dstop_set"
                                 ELSE "destroy_cleanup"]
    /\ UNCHANGED << thrVars, queueVars, qmutex, running_flag, next_thread_id,
                    running, wpc, wsched, nthreads, cur, warg, carg, ctl,
                    ntasks, cfgVars, crashed >>

\* lwt_scheduler_destroy, lines 45-46: lwt_scheduler_cleanup and free.
DestroyCleanup(c) ==
    /\ ~crashed /\ cpc[c] = "destroy_cleanup"
    /\ handle' = "freed"
    /\ cpc' = [cpc EXCEPT ![c] = "idle"]
    /\ UNCHANGED << thrVars, queueVars, qmutex, running_flag, next_thread_id,
                    running, wpc, wsched, nthreads, cur, warg, carg, ctl,
                    ntasks, bound, num_workers, worker_ids, workers,
                    main_contexts, crashed >>

\* lwt_thread_init with line 83 as `thread->id = scheduler->next_thread_id`.
CreateInit_NoIncrement(c) ==
    /\ ~crashed /\ cpc[c] = "idle" /\ handle = "valid"
    /\ ntasks < MaxTasks
    /\ LET t == ntasks + 1 IN
        /\ ntasks' = t
        /\ state' = [state EXCEPT ![t] = "NEW"]
        /\ next' = [next EXCEPT ![t] = NULL]
        /\ waiting' = [waiting EXCEPT ![t] = NULL]
        /\ ctx' = [ctx EXCEPT ![t] = [pos |-> "entry", tgt |-> NULL]]
        /\ stack' = [stack EXCEPT ![t] = t]
        /\ id' = [id EXCEPT ![t] = next_thread_id]
        /\ carg' = [carg EXCEPT ![c] = t]
    /\ cpc' = [cpc EXCEPT ![c] = "add"]
    /\ UNCHANGED << ops, queueVars, qmutex, running_flag, next_thread_id, running,
                    wpc, wsched, nthreads, cur, warg, ctl, cfgVars, crashed >>

\* lwt_create, lines 85-100, with lwt_thread_init: allocate the task, set it
\* NEW with a fresh context, and take the next id under the scheduler mutex.
CreateInit(c) ==
    /\ ~crashed /\ cpc[c] = "idle" /\ handle = "valid"
    /\ ntasks < MaxTasks
    /\ LET t == ntasks + 1 IN
        /\ ntasks' = t
        /\ state' = [state EXCEPT ![t] = "NEW"]
        /\ next' = [next EXCEPT ![t] = NULL]
        /\ waiting' = [waiting EXCEPT ![t] = NULL]
        /\ ctx' = [ctx EXCEPT ![t] = [pos |-> "entry", tgt |-> NULL]]
        /\ stack' = [stack EXCEPT ![t] = t]
        /\ id' = [id EXCEPT ![t] = next_thread_id]
        /\ next_thread_id' = next_thread_id + 1
        /\ carg' = [carg EXCEPT ![c] = t]
    /\ cpc' = [cpc EXCEPT ![c] = "add"]
    /\ UNCHANGED << ops, queueVars, qmutex, running_flag, running, wpc, wsched, nthreads,
                    cur, warg, ctl, cfgVars, crashed >>

\* lwt_create, line 85, with the scheduler test left out.
CreateRejectsArgs_NoFuncTest(s, f) == s = "null"

\* lwt_create, line 85: `!scheduler || !func`, for the handle s that is passed
\* and f, whether a function is passed.
CreateRejectsArgs(s, f) == s = "null" \/ ~f

\* lwt_create, lines 86-87: errno = EINVAL and return NULL.
CreateInvalid(c) ==
    /\ ~crashed /\ cpc[c] = "idle"
    /\ cpc' = [cpc EXCEPT ![c] = "create_null"]
    /\ UNCHANGED << thrVars, queueVars, qmutex, running_flag, next_thread_id,
                    running, wpc, wsched, nthreads, cur, warg, carg, ctl, ntasks,
                    cfgVars, crashed >>

\* lwt_create(s, f, arg) up to its first return or to the id of the new task.
LwtCreate(c, s, f) ==
    IF CreateRejectsArgs(s, f)
    THEN CreateInvalid(c)
    ELSE s = handle /\ CreateInit(c)

\* lwt_create called with a NULL scheduler, a NULL function, or both.
CreateNullArg(c) ==
    \E s \in {"null", "valid"}, f \in BOOLEAN :
        /\ s = "valid" => handle = "valid"
        /\ s = "null" \/ ~f
        /\ LwtCreate(c, s, f)

\* The caller has its NULL.
CreateNullReturn(c) ==
    /\ ~crashed /\ cpc[c] = "create_null"
    /\ cpc' = [cpc EXCEPT ![c] = "idle"]
    /\ UNCHANGED << thrVars, queueVars, qmutex, running_flag, next_thread_id,
                    running, wpc, wsched, nthreads, cur, warg, carg, ctl, ntasks,
                    cfgVars, crashed >>

\* lwt_create, lines 91-100, when malloc of the task, malloc of its stack
\* (thread.c:55-58) or getcontext (thread.c:60-64) fails: the stack and the
\* task are freed and NULL is returned, before the id is taken.
CreateFails(c) ==
    /\ ~crashed /\ cpc[c] = "idle" /\ handle = "valid"
    /\ cpc' = [cpc EXCEPT ![c] = "create_null"]
    /\ UNCHANGED << thrVars, queueVars, qmutex, running_flag, next_thread_id,
                    running, wpc, wsched, nthreads, cur, warg, carg, ctl, ntasks,
                    cfgVars, crashed >>

\* lwt_scheduler_add_thread, line 107: the state write, no lock held.
AddState(c) ==
    /\ ~crashed /\ cpc[c] = "add"
    /\ state' = [state EXCEPT ![carg[c]] = "READY"]
    /\ cpc' = [cpc EXCEPT ![c] = "push"]
    /\ UNCHANGED << next, waiting, id, ctx, stack, ops, queueVars, qmutex,
                    running_flag, next_thread_id, running, wpc, wsched, nthreads, cur,
                    warg, carg, ctl, ntasks, cfgVars, crashed >>

\* lwt_queue_push, queue.c:43 and 50-51: take the queue's own mutex, clear the
\* task's link and load queue->tail for the test.
PushLock(c) ==
    /\ ~crashed /\ cpc[c] = "push"
    /\ qmutex = NULL
    /\ qmutex' = c
    /\ next' = [next EXCEPT ![carg[c]] = NULL]
    /\ ctl' = [ctl EXCEPT ![c] = tail]
    /\ cpc' = [cpc EXCEPT ![c] = "link"]
    /\ UNCHANGED << state, waiting, id, ctx, stack, ops, queueVars, running_flag,
                    next_thread_id, running, wpc, wsched, nthreads, cur, warg, carg,
                    ntasks, cfgVars, crashed >>

\* queue.c:51-57 and 45: the stores of the branch taken, the count, the unlock.
\* The scheduler mutex is not held, so the queue may have changed since the
\* load; the else branch stores through the tail it loaded for the test or
\* through a second load, and a second load that finds NULL ends the process.
PushLink(c) ==
    /\ ~crashed /\ cpc[c] = "link"
    /\ LET t == carg[c] IN
        \E tl \in (IF ctl[c] = NULL THEN {NULL} ELSE {ctl[c], tail}) :
            IF ctl[c] = NULL
            THEN /\ head' = t /\ tail' = t /\ count' = count + 1
                 /\ pushed' = Append(pushed, t)
                 /\ UNCHANGED << next, crashed >>
            ELSE IF tl = NULL
            THEN /\ crashed' = TRUE
                 /\ UNCHANGED << next, queueVars >>
            ELSE /\ next' = [next EXCEPT ![tl] = t]
                 /\ tail' = t /\ count' = count + 1
                 /\ pushed' = Append(pushed, t)
                 /\ UNCHANGED << head, crashed >>
    /\ qmutex' = NULL
    /\ ctl' = [ctl EXCEPT ![c] = NULL]
    /\ cpc' = [cpc EXCEPT ![c] = "signal"]
    /\ UNCHANGED << state, waiting, id, ctx, stack, ops, running_flag,
                    next_thread_id, running, wpc, wsched, nthreads, cur, warg, carg,
                    ntasks, cfgVars >>

\* lwt_scheduler_add_thread, lines 113-115: signal under the scheduler mutex;
\* lwt_create then returns the task.
AddSignal(c) ==
    /\ ~crashed /\ cpc[c] = "signal"
    /\ \E wk \in SignalChoices : wpc' = Woken(wpc, wk)
    /\ cpc' = [cpc EXCEPT ![c] = "idle"]
    /\ carg' = [carg EXCEPT ![c] = NULL]
    /\ UNCHANGED << thrVars, queueVars, qmutex, running_flag, next_thread_id,
                    running, wsched, nthreads, cur, warg, ctl, ntasks, cfgVars,
                    crashed >>

\* A task handle the application holds: lwt_create has returned it.
Published(t) ==
    /\ t <= ntasks
    /\ \A c \in ApiThreads :
          ~(cpc[c] \in {"add", "push", "link", "signal"} /\ carg[c] = t)

\* lwt_join called by an OS thread that is not a worker: the call.
CallerJoin(c, t) ==
    /\ ~crashed /\ cpc[c] = "idle"
    /\ Published(t)
    /\ cpc' = [cpc EXCEPT ![c] = "join"]
    /\ carg' = [carg EXCEPT ![c] = t]
    /\ UNCHANGED << thrVars, queueVars, qmutex, running_flag, next_thread_id,
                    running, wpc, wsched, nthreads, cur, warg, ctl, ntasks, cfgVars,
                    crashed >>

\* lwt_join, lines 151-159: lwt_thread_self() is NULL on such a thread, and
\* the call returns.
CallerJoinReturn(c) ==
    /\ ~crashed /\ cpc[c] = "join"
    /\ cpc' = [cpc EXCEPT ![c] = "idle"]
    /\ carg' = [carg EXCEPT ![c] = NULL]
    /\ UNCHANGED << thrVars, queueVars, qmutex, running_flag, next_thread_id,
                    running, wpc, wsched, nthreads, cur, warg, ctl, ntasks, cfgVars,
                    crashed >>

\* lwt_thread_self, thread.c:16 and 99-101: the thread-local current_thread
\* of the calling OS thread, NULL on a thread that is not a worker.
lwt_thread_self(c) ==
    IF c \in Callers THEN NULL ELSE cur[c - (NumCallers + 1)]

\* lwt_yield without the test of lines 116-118: line 121 reads
\* thread->scheduler through the NULL pointer.
CallerYield_NoSelfTest(c) ==
    /\ ~crashed /\ cpc[c] = "idle"
    /\ cpc' = [cpc EXCEPT ![c] = "yield"]
    /\ crashed' = (lwt_thread_self(c) = NULL)
    /\ UNCHANGED << thrVars, queueVars, qmutex, running_flag, next_thread_id,
                    running, wpc, wsched, nthreads, cur, warg, carg, ctl, ntasks,
                    cfgVars >>

\* lwt_yield, lines 115-118, and lwt_sleep, lines 199-207, called by an OS
\* thread that is not a worker: lwt_thread_self() is NULL and the call returns
\* (lwt_sleep after a plain nanosleep).
CallerYield(c) ==
    /\ ~crashed /\ cpc[c] = "idle"
    /\ lwt_thread_self(c) = NULL
    /\ cpc' = [cpc EXCEPT ![c] = "yield"]
    /\ UNCHANGED << thrVars, queueVars, qmutex, running_flag, next_thread_id,
                    running, wpc, wsched, nthreads, cur, warg, carg, ctl, ntasks, cfgVars,
                    crashed >>

CallerSleep(c) ==
    /\ ~crashed /\ cpc[c] = "idle"
    /\ lwt_thread_self(c) = NULL
    /\ cpc' = [cpc EXCEPT ![c] = "sleep"]
    /\ UNCHANGED << thrVars, queueVars, qmutex, running_flag, next_thread_id,
                    running, wpc, wsched, nthreads, cur, warg, carg, ctl, ntasks, cfgVars,
                    crashed >>

\* lwt_current, lines 192-194, called by such a thread: the value returned is
\* lwt_thread_self().
CallerCurrent(c) ==
    /\ ~crashed /\ cpc[c] = "idle"
    /\ cpc' = [cpc EXCEPT ![c] = "current"]
    /\ carg' = [carg EXCEPT ![c] = lwt_thread_self(c)]
    /\ UNCHANGED << thrVars, queueVars, qmutex, running_flag, next_thread_id,
                    running, wpc, wsched, nthreads, cur, warg, ctl, ntasks, cfgVars,
                    crashed >>

CallerNoopReturn(c) ==
    /\ ~crashed /\ cpc[c] \in {"yield", "sleep", "current"}
    /\ cpc' = [cpc EXCEPT ![c] = "idle"]
    /\ carg' = [carg EXCEPT ![c] = NULL]
    /\ UNCHANGED << thrVars, queueVars, qmutex, running_flag, next_thread_id,
                    running, wpc, wsched, nthreads, cur, warg, ctl, ntasks, cfgVars,
                    crashed >>

\* ------------------------------------------------ scheduler.c: workers
\* lwt_worker_function, lines 26-30: scheduler is NULL, sleep and continue.
WorkerSpin(w) ==
    /\ ~crashed /\ wpc[w] = "top"
    /\ ~wsched[w]
    /\ UNCHANGED vars

\* Where swapcontext into a task's saved context continues: in the entry
\* function (first entry, or yield/sleep/join returning into it), or past the
\* trampoline's last statement, where uc_link = NULL ends the OS thread.
ResumePc(c) == IF c.pos = "ret" THEN "exited" ELSE "func"

\* lwt_worker_function, lines 31-50: one pass of the loop under the scheduler
\* mutex, then set_current and swapcontext into the popped task.
WorkerLoop(w) ==
    /\ ~crashed /\ wpc[w] = "top"
    /\ wsched[w]
    /\ IF running_flag /\ head = NULL
       THEN /\ wpc' = [wpc EXCEPT ![w] = "wait"]
            /\ UNCHANGED << thrVars, queueVars, running, cur >>
       ELSE IF ~running_flag
       THEN /\ wpc' = [wpc EXCEPT ![w] = "exited"]
            /\ UNCHANGED << thrVars, queueVars, running, cur >>
       ELSE LET t == head IN
            /\ SetQueue(PopLocked(Q))
            /\ pushed' = Without(pushed, t)
            /\ state' = [state EXCEPT ![t] = "RUNNING"]
            /\ running' = [running EXCEPT ![IdOf(w)] = t]
            /\ cur' = [cur EXCEPT ![w] = t]
            /\ wpc' = [wpc EXCEPT ![w] = ResumePc(ctx[t])]
            /\ UNCHANGED << waiting, id, ctx, stack, ops >>
    /\ main_contexts' = IF running_flag /\ head # NULL
                        THEN [main_contexts EXCEPT ![IdOf(w)] = w]
                        ELSE main_contexts
    /\ nthreads' = [nthreads EXCEPT
                       ![IdOf(w)] = IF wpc'[w] = "exited" THEN @ - 1 ELSE @]
    /\ UNCHANGED << qmutex, running_flag, next_thread_id, wsched, warg,
                    callerVars, ntasks, bound, num_workers, handle, worker_ids,
                    workers, crashed >>

\* pthread_cond_wait may return without a signal.
SpuriousWake(w) ==
    /\ ~crashed /\ wpc[w] = "wait"
    /\ wpc' = [wpc EXCEPT ![w] = "top"]
    /\ UNCHANGED << thrVars, queueVars, qmutex, running_flag, next_thread_id,
                    running, wsched, nthreads, cur, warg, callerVars, ntasks, cfgVars,
                    crashed >>

\* ------------------------------------------- lwthread.c, thread.c: tasks
\* lwt_yield without lwthread.c:138: the worker's slot is left set when the
\* task has been re-enqueued.
YieldSection_KeepsSlot(w, to) ==
    LET t == cur[w] IN
    /\ IF state[t] # "FINISHED"
       THEN /\ state' = [state EXCEPT ![t] = "READY"]
            /\ SetQueue(PushLocked(Q, t))
            /\ pushed' = Append(pushed, t)
       ELSE UNCHANGED << state, queueVars, next >>
    /\ running' = running
    /\ \E wk \in SignalChoices : wpc' = Woken([wpc EXCEPT ![w] = to], wk)

\* lwt_yield without the test of lwthread.c:132: a FINISHED task is enqueued
\* by the trampoline's final yield.
YieldSection_AlwaysRequeues(w, to) ==
    LET t == cur[w] IN
    /\ state' = state
    /\ SetQueue(PushLocked(Q, t))
    /\ pushed' = Append(pushed, t)
    /\ running' = [running EXCEPT ![IdOf(w)] = NULL]
    /\ \E wk \in SignalChoices : wpc' = Woken([wpc EXCEPT ![w] = to], wk)

\* lwt_yield with lines 133-134 made unconditional: the task is set READY and
\* enqueued whatever its state.
YieldSection_NoFinishedTest(w, to) ==
    LET t == cur[w] IN
    /\ state' = [state EXCEPT ![t] = "READY"]
    /\ SetQueue(PushLocked(Q, t))
    /\ pushed' = Append(pushed, t)
    /\ running' = [running EXCEPT ![IdOf(w)] = NULL]
    /\ \E wk \in SignalChoices : wpc' = Woken([wpc EXCEPT ![w] = to], wk)

\* lwt_yield, lines 129-143, by the task cur[w] on worker w (worker_id = w):
\* re-enqueue unless FINISHED, clear the slot, signal.
YieldSection(w, to) ==
    LET t == cur[w] IN
    /\ IF state[t] # "FINISHED"
       THEN /\ state' = [state EXCEPT ![t] = "READY"]
            /\ SetQueue(PushLocked(Q, t))
            /\ pushed' = Append(pushed, t)
       ELSE UNCHANGED << state, queueVars, next >>
    /\ running' = [running EXCEPT ![IdOf(w)] = NULL]
    /\ \E wk \in SignalChoices : wpc' = Woken([wpc EXCEPT ![w] = to], wk)

\* The entry function calls lwt_yield.
TaskYield(w) ==
    /\ ~crashed /\ wpc[w] = "func"
    /\ ops[cur[w]] < MaxOps
    /\ ops' = [ops EXCEPT ![cur[w]] = @ + 1]
    /\ YieldSection(w, "yswap")
    /\ UNCHANGED << waiting, id, ctx, stack, qmutex, running_flag, next_thread_id,
                    wsched, nthreads, cur, warg, callerVars, ntasks, cfgVars, crashed >>

\* lwt_join(u) that records the caller only when u has no joiner yet.
TaskJoin_KeepsFirstJoiner(w, u) ==
    /\ ~crashed /\ wpc[w] = "func"
    /\ ops[cur[w]] < MaxOps
    /\ Published(u)
    /\ ops' = [ops EXCEPT ![cur[w]] = @ + 1]
    /\ IF state[u] = "FINISHED"
       THEN UNCHANGED << state, waiting, running, wpc, warg >>
       ELSE /\ state' = [state EXCEPT ![cur[w]] = "BLOCKED"]
            /\ waiting' = IF waiting[u] = NULL
                          THEN [waiting EXCEPT ![u] = cur[w]]
                          ELSE waiting
            /\ running' = [running EXCEPT ![IdOf(w)] = NULL]
            /\ warg' = [warg EXCEPT ![w] = u]
            /\ wpc' = [wpc EXCEPT ![w] = "jswap"]
    /\ UNCHANGED << next, id, ctx, stack, queueVars, qmutex, running_flag,
                    next_thread_id, wsched, nthreads, cur, callerVars, ntasks, cfgVars,
                    crashed >>

\* lwt_join(u) without the test of lines 173-176.
TaskJoin_NoFinishedTest(w, u) ==
    /\ ~crashed /\ wpc[w] = "func"
    /\ ops[cur[w]] < MaxOps
    /\ Published(u)
    /\ ops' = [ops EXCEPT ![cur[w]] = @ + 1]
    /\ state' = [state EXCEPT ![cur[w]] = "BLOCKED"]
    /\ waiting' = [waiting EXCEPT ![u] = cur[w]]
    /\ running' = [running EXCEPT ![IdOf(w)] = NULL]
    /\ warg' = [warg EXCEPT ![w] = u]
    /\ wpc' = [wpc EXCEPT ![w] = "jswap"]
    /\ UNCHANGED << next, id, ctx, stack, queueVars, qmutex, running_flag,
                    next_thread_id, wsched, nthreads, cur, callerVars, ntasks,
                    cfgVars, crashed >>

\* The entry function calls lwt_join(u), lines 170-185.
TaskJoin(w, u) ==
    /\ ~crashed /\ wpc[w] = "func"
    /\ ops[cur[w]] < MaxOps
    /\ Published(u)
    /\ ops' = [ops EXCEPT ![cur[w]] = @ + 1]
    /\ IF state[u] = "FINISHED"
       THEN UNCHANGED << state, waiting, running, wpc, warg >>
       ELSE /\ state' = [state EXCEPT ![cur[w]] = "BLOCKED"]
            /\ waiting' = [waiting EXCEPT ![u] = cur[w]]
            /\ running' = [running EXCEPT ![IdOf(w)] = NULL]
            /\ warg' = [warg EXCEPT ![w] = u]
            /\ wpc' = [wpc EXCEPT ![w] = "jswap"]
    /\ UNCHANGED << next, id, ctx, stack, queueVars, qmutex, running_flag,
                    next_thread_id, wsched, nthreads, cur, callerVars, ntasks, cfgVars,
                    crashed >>

\* The entry function calls lwt_sleep, lines 228-236: BLOCKED, slot cleared;
\* the worker then sits in nanosleep on the task's stack.
TaskSleep(w) ==
    /\ ~crashed /\ wpc[w] = "func"
    /\ ops[cur[w]] < MaxOps
    /\ ops' = [ops EXCEPT ![cur[w]] = @ + 1]
    /\ state' = [state EXCEPT ![cur[w]] = "BLOCKED"]
    /\ running' = [running EXCEPT ![IdOf(w)] = NULL]
    /\ wpc' = [wpc EXCEPT ![w] = "sleeping"]
    /\ UNCHANGED << next, waiting, id, ctx, stack, queueVars, qmutex, running_flag,
                    next_thread_id, wsched, nthreads, cur, warg, callerVars, ntasks,
                    cfgVars, crashed >>

\* lwt_sleep, lines 243-247: nanosleep is over; READY, enqueue, signal.
SleepWake(w) ==
    /\ ~crashed /\ wpc[w] = "sleeping"
    /\ state' = [state EXCEPT ![cur[w]] = "READY"]
    /\ SetQueue(PushLocked(Q, cur[w]))
    /\ pushed' = Append(pushed, cur[w])
    /\ \E wk \in SignalChoices : wpc' = Woken([wpc EXCEPT ![w] = "sswap"], wk)
    /\ UNCHANGED << waiting, id, ctx, stack, ops, qmutex, running_flag,
                    next_thread_id, running, wsched, nthreads, cur, warg, callerVars,
                    ntasks, cfgVars, crashed >>

\* lwt_thread_start, lines 24-34: the entry function has returned; FINISHED,
\* and the joiner, if any, is made READY, enqueued and unlinked.
TaskReturn(w) ==
    /\ ~crashed /\ wpc[w] = "func"
    /\ LET t == cur[w]
           j == waiting[t] IN
       IF j # NULL
       THEN /\ state' = [state EXCEPT ![t] = "FINISHED", ![j] = "READY"]
            /\ SetQueue(PushLocked(Q, j))
            /\ pushed' = Append(pushed, j)
            /\ waiting' = [waiting EXCEPT ![t] = NULL]
            /\ \E wk \in SignalChoices :
                  wpc' = Woken([wpc EXCEPT ![w] = "fyield"], wk)
       ELSE /\ state' = [state EXCEPT ![t] = "FINISHED"]
            /\ wpc' = [wpc EXCEPT ![w] = "fyield"]
            /\ UNCHANGED << queueVars, next, waiting >>
    /\ UNCHANGED << id, ctx, stack, ops, qmutex, running_flag, next_thread_id,
                    running, wsched, nthreads, cur, warg, callerVars, ntasks, cfgVars,
                    crashed >>

\* lwt_thread_start, line 35: the trampoline's lwt_yield.
FinalYield(w) ==
    /\ ~crashed /\ wpc[w] = "fyield"
    /\ YieldSection(w, "fswap")
    /\ UNCHANGED << waiting, id, ctx, stack, ops, qmutex, running_flag,
                    next_thread_id, wsched, nthreads, cur, warg, callerVars, ntasks,
                    cfgVars, crashed >>

\* The context swapcontext saves at each suspension point.
SavedCtx(w) ==
    CASE wpc[w] = "jswap" -> [pos |-> "join_ret", tgt |-> warg[w]]
      [] wpc[w] = "fswap" -> [pos |-> "ret", tgt |-> NULL]
      [] OTHER -> [pos |-> "func", tgt |-> NULL]

\* swapcontext(&thread->context, &scheduler->main_contexts[worker_id]) at
\* lwthread.c:146, 188 and 250: save the task's context, continue the worker
\* loop after scheduler.c:47.
SwapOut(w) ==
    /\ ~crashed /\ wpc[w] \in SwapPcs
    /\ ctx' = [ctx EXCEPT ![cur[w]] = SavedCtx(w)]
    /\ warg' = [warg EXCEPT ![w] = NULL]
    /\ IF main_contexts[IdOf(w)] = w
       THEN wpc' = [wpc EXCEPT ![w] = "top"] /\ UNCHANGED crashed
       ELSE \/ wpc' = [wpc EXCEPT ![w] = "top"] /\ UNCHANGED crashed
            \/ crashed' = TRUE /\ UNCHANGED wpc
    /\ UNCHANGED << state, next, waiting, id, stack, ops, queueVars, qmutex,
                    running_flag, next_thread_id, running, wsched, nthreads, cur,
                    callerVars, ntasks, cfgVars >>

\* ------------------------------------------------------- specifications
\* lwt_scheduler_start, lwt_scheduler_stop and lwt_create by caller c.
CallerStep(c) ==
    \/ StartCheck(c) \/ StartSet(c)
    \/ StopCheck(c) \/ StopSet(c)
    \/ CreateInit(c) \/ AddState(c) \/ PushLock(c) \/ PushLink(c)
    \/ AddSignal(c)

\* lwt_join, lwt_yield, lwt_sleep and lwt_current by caller c, an OS thread
\* that is not a worker: they change nothing a task or a worker reads.
OutsideStep(c) ==
    \/ \E t \in Tasks : CallerJoin(c, t)
    \/ CallerJoinReturn(c)
    \/ CallerYield(c) \/ CallerSleep(c) \/ CallerCurrent(c)
    \/ CallerNoopReturn(c)

\* lwt_scheduler_stop on a scheduler whose running_flag reads 0,
\* lwt_scheduler_start on one whose running_flag reads 1, and
\* lwt_scheduler_destroy, and lwt_create with a NULL argument.
EarlyStep(c) ==
    \/ StopNotRunning(c) \/ StopReturn(c)
    \/ StartRunning(c) \/ StartReturn(c)
    \/ DestroyStop(c) \/ DestroyCleanup(c)
    \/ CreateNullArg(c) \/ CreateNullReturn(c)

DispatchNext ==
    \E w \in Workers :
        \/ WorkerLoop(w) \/ SpuriousWake(w)
        \/ TaskYield(w) \/ TaskSleep(w) \/ SleepWake(w)
        \/ \E u \in Tasks : TaskJoin(w, u)
        \/ TaskReturn(w) \/ FinalYield(w) \/ SwapOut(w)

\* The source as written, driven by NumCallers OS threads.  A worker never
\* leaves lines 26-30, so no worker ever exits and pthread_join in
\* lwt_scheduler_stop never returns: StopJoin is not a step of Next.
Next ==
    \/ \E c \in Callers : CallerStep(c) \/ OutsideStep(c) \/ EarlyStep(c)
    \/ \E w \in Workers : WorkerSpin(w)

Spec == Init /\ [][Next]_vars

\* The arguments tried for lwt_scheduler_create.
CreateArgs ==
    {0 - 1, 0, 1, NumWorkers, LWT_MAX_WORKERS, LWT_MAX_WORKERS + 1}

\* The source as written, from before lwt_scheduler_create on.
SchedulerCreateStep ==
    \E c \in Callers, n \in CreateArgs, ok \in BOOLEAN :
        SchedulerCreate(c, n, ok)

NextCreate == SchedulerCreateStep \/ Next

SpecCreate == InitCreate /\ [][NextCreate]_vars

\* The workers whose pthread_create is let fail: the first and the last of
\* the loop.
FailingWorkers == {i \in WorkerIds : i = 0 \/ i = num_workers - 1}

\* A step in which the system refuses a resource: lwt_create without memory
\* or context, lwt_scheduler_start without an OS thread for one worker.
ExhaustionStep ==
    \E c \in Callers :
        \/ CreateFails(c)
        \/ \E i \in FailingWorkers : StartSetFails(c, i)

NextExhaust == ExhaustionStep \/ NextCreate

\* The source as written, from before lwt_scheduler_create on, with
\* allocations and pthread_create that may fail.
SpecExhaust == InitCreate /\ [][NextExhaust]_vars

\* The caller that drives SpecBound: the first one (main).
Main == CHOOSE c \in Callers : \A d \in Callers : c <= d

\* The worker's scheduler local bound: lines 31-50 and the tasks run.  The API
\* is driven by one OS thread.
NextBound ==
    \/ CallerStep(Main)
    \/ StopJoin(Main)
    \/ DispatchNext

SpecBound == InitBound /\ [][NextBound]_vars

\* SpecBound with lwt_scheduler_destroy: a scheduler's whole life, from
\* lwt_scheduler_create to free.
NextLife ==
    \/ NextBound
    \/ DestroyStop(Main) \/ DestroyCleanup(Main)

SpecLife == InitBound /\ [][NextLife]_vars

\* The entry function calls lwt_create: the worker's OS thread runs
\* lwt_create and lwt_scheduler_add_thread on the task's stack.
TaskSpawn(w) ==
    /\ wpc[w] = "func"
    /\ LET c == TaskCaller(w) IN
          \/ CreateInit(c) \/ AddState(c) \/ PushLock(c) \/ PushLink(c)
          \/ AddSignal(c)

\* The entry function, between two calls of lwt_create, calls lwt_yield or
\* returns.
TaskBetweenSpawns(w) ==
    /\ cpc[TaskCaller(w)] = "idle"
    /\ (TaskYield(w) \/ TaskReturn(w))

DispatchSpawn ==
    \E w \in Workers :
        \/ WorkerLoop(w) \/ SpuriousWake(w)
        \/ TaskSpawn(w) \/ TaskBetweenSpawns(w)
        \/ FinalYield(w) \/ SwapOut(w)

\* The worker's scheduler local bound, with tasks that are spawned by main
\* and by running tasks.
NextSpawn ==
    \/ CallerStep(Main)
    \/ StopJoin(Main)
    \/ DispatchSpawn

SpecSpawn == InitBound /\ [][NextSpawn]_vars

\* lwt_scheduler_create(1) with the worker's scheduler local bound, every task
\* spawned by main before lwt_scheduler_start, and entry functions that call
\* lwt_yield MaxOps times and return.
InitRR == num_workers = 1 /\ InitCommon /\ bound = TRUE

\* lwt_create called before the first lwt_scheduler_start.
CreateBeforeStart(c) == (\A w \in Workers : wpc[w] = "off") /\ CreateInit(c)

\* The entry function returns once it has called lwt_yield MaxOps times.
ReturnAfterYields(w) ==
    wpc[w] = "func" /\ ops[cur[w]] = MaxOps /\ TaskReturn(w)

DispatchRR ==
    \E w \in Workers :
        \/ WorkerLoop(w) \/ SpuriousWake(w)
        \/ TaskYield(w)
        \/ ReturnAfterYields(w)
        \/ FinalYield(w) \/ SwapOut(w)

NextRR ==
    \/ CreateBeforeStart(Main)
    \/ AddState(Main) \/ PushLock(Main) \/ PushLink(Main) \/ AddSignal(Main)
    \/ StartCheck(Main) \/ StartSet(Main)
    \/ StopCheck(Main) \/ StopSet(Main) \/ StopJoin(Main)
    \/ DispatchRR

SpecRR == InitRR /\ [][NextRR]_vars

\* lwt_scheduler_create(1) with the worker's scheduler local bound,
\* lwt_scheduler_start called by every outside OS thread, main spawning tasks,
\* and entry functions that call lwt_yield MaxOps times and return.
NextDup ==
    \/ \E c \in Callers : StartCheck(c) \/ StartSet(c)
    \/ CreateInit(Main) \/ AddState(Main) \/ PushLock(Main) \/ PushLink(Main)
    \/ AddSignal(Main)
    \/ DispatchRR

SpecDup == InitRR /\ [][NextDup]_vars

\* Fairness for the liveness claims: every OS thread that can take a step
\* eventually takes one (the OS schedules every runnable thread).
FairSpec ==
    /\ Spec
    /\ \A c \in Callers :
          WF_vars(CallerStep(c) \/ OutsideStep(c) \/ EarlyStep(c))
    /\ \A w \in 0 .. (MaxStarts * NumWorkers - 1) : WF_vars(WorkerSpin(w))

\* SpecBound with the same fairness: main and every worker OS thread that can
\* take a step eventually take one.
FairBound ==
    /\ SpecBound
    /\ WF_vars(CallerStep(Main) \/ StopJoin(Main))
    /\ \A w \in 0 .. (MaxStarts * NumWorkers - 1) :
          WF_vars(WorkerLoop(w) \/ TaskYield(w) \/ TaskSleep(w) \/ SleepWake(w)
                  \/ (\E u \in Tasks : TaskJoin(w, u))
                  \/ TaskReturn(w) \/ FinalYield(w) \/ SwapOut(w))

\* The steps of a call of main that is in progress.
CallInProgress(c) ==
    \/ StartSet(c) \/ StopSet(c) \/ StopJoin(c)
    \/ AddState(c) \/ PushLock(c) \/ PushLink(c) \/ AddSignal(c)

\* SpecBound where every OS thread that can take a step inside the runtime
\* eventually takes one: main finishes the call it is in (whether it makes
\* another call, lwt_scheduler_stop among them, is up to the application),
\* and every worker runs its loop and the task it has dispatched.
FairRun ==
    /\ SpecBound
    /\ WF_vars(CallInProgress(Main))
    /\ \A w \in 0 .. (MaxStarts * NumWorkers - 1) :
          WF_vars(WorkerLoop(w) \/ TaskYield(w) \/ TaskSleep(w) \/ SleepWake(w)
                  \/ (\E u \in Tasks : TaskJoin(w, u))
                  \/ TaskReturn(w) \/ FinalYield(w) \/ SwapOut(w))

\* ----------------------------------------------------------------- claims
\* The workers that are executing task t's code on t's stack.
Executing(t) == {w \in Workers : wpc[w] \in TaskPcs /\ cur[w] = t}

\* lwt_join(carg[c]) returns to caller c, an OS thread outside the runtime.
CallerJoinReturns(c) == cpc[c] = "join" /\ cpc'[c] = "idle"

\* A worker resumes a task at the context lwt_join saved: lwt_join returns
\* into the entry function.
TaskJoinReturns(w) ==
    /\ wpc[w] = "top" /\ wpc'[w] = "func"
    /\ ctx[cur'[w]].pos = "join_ret"

\* C1: whenever a call lwt_join(t) returns to its caller, a task or an ordinary
\* OS thread such as main, the target t is FINISHED.
C1_JoinReturnsAfterFinish ==
    [][ /\ \A c \in Callers :
              CallerJoinReturns(c) => state[carg[c]] = "FINISHED"
        /\ \A w \in Workers :
              TaskJoinReturns(w) => state[ctx[cur'[w]].tgt] = "FINISHED"
      ]_vars

\* The half of C1 about callers that are tasks (checked under SpecBound).
C1_TaskJoinReturnsAfterFinish ==
    [][ \A w \in Workers :
            TaskJoinReturns(w) => state[ctx[cur'[w]].tgt] = "FINISHED" ]_vars

\* C2: on a started scheduler that is not stopped, every spawned task whose
\* entry function yields finitely often and returns eventually is FINISHED.
C2_SpawnedEventuallyFinished ==
    \A t \in Tasks :
        (state[t] = "READY" /\ running_flag)
            ~> (state[t] = "FINISHED" \/ ~running_flag)

\* C3: a task never executes on two workers at the same time; no worker
\* resumes a task while another worker still has its swapcontext to do.
C3_OneWorkerPerTask ==
    \A t \in Tasks : Cardinality(Executing(t)) <= 1

\* The workers whose `running` slot holds task t.
Slots(t) == {i \in WorkerIds : running[i] = t}

\* C4: in every reachable state a task is linked in the ready queue if and
\* only if its state is READY.
C4_ReadyIffQueued ==
    \A t \in Tasks : InQueue(t) <=> state[t] = "READY"

\* C4 read for the tasks lwt_create has returned only, which leaves out the
\* window of lwt_scheduler_add_thread between its state write and its push.
C4_PublishedReadyIffQueued ==
    \A t \in Tasks : Published(t) => (InQueue(t) <=> state[t] = "READY")

\* C5: a task is RUNNING if and only if it is in the running slot of exactly
\* one worker, and no task is ever in the slots of two workers.
C5_RunningIffCurrent ==
    \A t \in Tasks :
        /\ (state[t] = "RUNNING") <=> (Cardinality(Slots(t)) = 1)
        /\ Cardinality(Slots(t)) <= 1

\* C6: a FINISHED task is not linked in the ready queue and is in no worker's
\* running slot.
C6_FinishedNowhere ==
    \A t \in Tasks :
        state[t] = "FINISHED" => ~InQueue(t) /\ Slots(t) = {}

\* C7: the ready queue never contains the same task twice.
C7_QueueNoDuplicates ==
    \A i, j \in 1 .. Len(QueueSeq) : i # j => QueueSeq[i] # QueueSeq[j]

\* C5 as amended: no task is in two slots, a RUNNING task is in exactly one,
\* and a task in a worker's slot is RUNNING or is FINISHED with that worker
\* between the trampoline's FINISHED write and its final yield.
C5_RunningIffCurrentOrFinishing ==
    \A t \in Tasks :
        /\ Cardinality(Slots(t)) <= 1
        /\ state[t] = "RUNNING" => Cardinality(Slots(t)) = 1
        /\ \A w \in Slots(t) :
              \/ state[t] = "RUNNING"
              \/ state[t] = "FINISHED" /\ wpc[w] = "fyield" /\ cur[w] = t

C5_Witness ==
    \E t, u \in Tasks :
        /\ state[t] = "RUNNING" /\ Slots(t) # {}
        /\ state[u] = "FINISHED" /\ Slots(u) # {}

\* C6 as amended: a FINISHED task is never linked in the ready queue, and it
\* is in a worker's slot only while that worker is between the trampoline's
\* FINISHED write and its final yield.
C6_FinishedNotQueued ==
    \A t \in Tasks :
        state[t] = "FINISHED" =>
            /\ ~InQueue(t)
            /\ \A w \in Slots(t) : wpc[w] = "fyield" /\ cur[w] = t

C6_Witness ==
    \E t \in Tasks :
        state[t] = "FINISHED" /\ Slots(t) = {} /\ Len(QueueSeq) >= 1

C7_Witness ==
    \E w \in Workers :
        wpc[w] = "yswap" /\ Len(QueueSeq) >= 2 /\ InQueue(cur[w])

\* The entry function of the task on worker w returns and the trampoline's
\* critical section (thread.c:25-34) finds a joiner.
ReturnWakes(w) ==
    wpc[w] = "func" /\ wpc'[w] = "fyield" /\ waiting[cur[w]] # NULL

Occurrences(sq, t) == Cardinality({i \in 1 .. Len(sq) : sq[i] = t})

\* C8: when A's entry function returns with B as its joiner, B goes
\* BLOCKED -> READY and is enqueued once, in the critical section that has set
\* A FINISHED and that clears the back-link; nothing else makes a task that is
\* blocked in join READY.
C8_JoinWakeup ==
    [][ /\ \A w \in Workers :
              ReturnWakes(w) =>
                  LET a == cur[w]
                      b == waiting[cur[w]] IN
                  /\ state'[a] = "FINISHED"
                  /\ state[b] = "BLOCKED" /\ state'[b] = "READY"
                  /\ ~InQueue(b)
                  /\ Occurrences(QueueSeq', b) = 1
                  /\ waiting'[a] = NULL
        /\ \A b \in Tasks :
              (state[b] = "BLOCKED" /\ state'[b] = "READY") =>
                  \/ \E w \in Workers : wpc[w] = "sleeping" /\ cur[w] = b
                  \/ \E w \in Workers : ReturnWakes(w) /\ waiting[cur[w]] = b
      ]_vars

\* The tasks blocked in lwt_join on task a: BLOCKED, and either about to
\* save the context of that call or suspended in it.
Joiners(a) ==
    {b \in Tasks :
        /\ state[b] = "BLOCKED"
        /\ \/ \E w \in Workers : wpc[w] = "jswap" /\ cur[w] = b /\ warg[w] = a
           \/ /\ ctx[b] = [pos |-> "join_ret", tgt |-> a]
              /\ ~\E w \in Workers : wpc[w] \in TaskPcs /\ cur[w] = b}

\* C9: every task has at most one joiner, and a set back-link refers to a
\* BLOCKED task and is held by a task that is not FINISHED.
C9_OneJoiner ==
    \A a \in Tasks :
        /\ Cardinality(Joiners(a)) <= 1
        /\ waiting[a] # NULL =>
              state[waiting[a]] = "BLOCKED" /\ state[a] # "FINISHED"

\* The back-link half of C9 alone.
C9_BackLinkBlocked ==
    \A a \in Tasks :
        waiting[a] # NULL =>
            state[waiting[a]] = "BLOCKED" /\ state[a] # "FINISHED"

\* A worker pops a task and switches to it (scheduler.c:41-47).
Dispatches(w) == wpc[w] = "top" /\ wpc'[w] \in {"func", "exited"} /\ wsched[w]

\* C10: workers dispatch tasks in exactly the order in which the tasks were
\* pushed to the ready queue.
C10_FifoDispatch ==
    [][ \A w \in Workers :
            (Dispatches(w) /\ head # NULL /\ running_flag) =>
                cur'[w] = Head(pushed) ]_vars

\* The turns task t has completed while it is not executing: one per
\* lwt_yield it has called, and one more once its entry function has returned.
Turns(t) == IF state[t] = "FINISHED" THEN MaxOps + 1 ELSE ops[t]

\* C11: with one worker, all tasks spawned before start and each task yielding
\* the same number of times, the turns are taken in round-robin order of
\* spawn: a yielding task goes behind every READY task, and a task is
\* dispatched for a turn when exactly the tasks spawned before it have taken
\* that turn.
C11_RoundRobin ==
    [][ \A w \in Workers :
          /\ (wpc[w] = "func" /\ wpc'[w] = "yswap") =>
                QueueSeq' = Append(QueueSeq, cur[w])
          /\ (Dispatches(w) /\ head # NULL /\ running_flag) =>
                /\ cur'[w] = Head(QueueSeq)
                /\ \A u \in 1 .. ntasks :
                      u # cur'[w] =>
                          Turns(u) = IF u < cur'[w] THEN Turns(cur'[w]) + 1
                                     ELSE Turns(cur'[w])
      ]_vars

C11_Witness ==
    /\ ntasks = MaxTasks
    /\ \E w \in Workers :
          wpc[w] = "func" /\ cur[w] = 2 /\ ops[2] = MaxOps
    /\ state[1] = "FINISHED" /\ state[MaxTasks] = "READY"

\* lwt_scheduler_stop returns to caller c: after pthread_join of every worker,
\* or at once because running_flag read 0.
StopReturns(c) ==
    /\ cpc[c] \in {"stop_join", "stop_ret"}
    /\ cpc'[c] = "idle"

\* C12: when stop returns and no start has set the running flag again, every
\* worker OS thread has exited; and a worker pops a task only while the running
\* flag is set.
C12_StoppedAfterStop ==
    [][ /\ \A c \in Callers :
              (StopReturns(c) /\ ~running_flag) =>
                  \A i \in WorkerIds : nthreads[i] = 0
        /\ \A w \in Workers :
              (Dispatches(w) /\ cur'[w] # cur[w]) => running_flag
      ]_vars

\* The part of C12 about one caller whose stop has joined the workers: while
\* the flag is off and no stop is waiting in pthread_join, no worker is alive
\* and no task is RUNNING on a worker.
C12_JoinedWorkersGone ==
    (~running_flag /\ \A c \in Callers : cpc[c] # "stop_join") =>
        /\ \A i \in WorkerIds : nthreads[i] = 0
        /\ \A w \in Workers : wpc[w] \in {"off", "exited"}

\* C13: a call to stop on a started scheduler eventually returns.
C13_StopReturns ==
    \A c \in Callers : (cpc[c] = "stop_join") ~> (cpc[c] = "idle")

\* Caller c enters lwt_scheduler_stop (directly) while running_flag is 0.
StopCallNotRunning(c) ==
    /\ cpc[c] = "idle" /\ ~running_flag
    /\ cpc'[c] \in {"stop_ret", "stop_set", "stop_join"}

\* C14: stop on a scheduler that is not running returns at once: it joins no
\* OS thread and changes no scheduler or task state, and its return and the
\* cleanup of a following destroy are never blocked.
C14_StopIdempotent ==
    [][ \A c \in Callers :
          /\ StopCallNotRunning(c) =>
                /\ cpc'[c] = "stop_ret"
                /\ UNCHANGED << thrVars, queueVars, qmutex, running_flag,
                                next_thread_id, running, wpc, wsched, nthreads,
                                cur, warg, carg, ctl, ntasks, cfgVars, crashed >>
          /\ cpc[c] = "stop_ret" => ENABLED StopReturn(c)
          /\ cpc[c] = "destroy_cleanup" => ENABLED DestroyCleanup(c)
      ]_vars

C14_Witness ==
    /\ \E c \in Callers : cpc[c] = "stop_ret"
    /\ ~running_flag
    /\ \A i \in WorkerIds : nthreads[i] = 0
    /\ \A w \in Workers : wpc[w] = "off"

\* Caller c enters lwt_scheduler_start while running_flag is 1.
StartCallRunning(c) ==
    /\ cpc[c] = "idle" /\ running_flag
    /\ cpc'[c] \in {"start_ret", "start_set"}

\* C15: start on a scheduler that is already running creates no worker OS
\* thread and changes no state, also when two callers start concurrently: a
\* worker is created only while the running flag is off.
C15_StartIdempotent ==
    [][ /\ \A c \in Callers :
              StartCallRunning(c) =>
                  /\ cpc'[c] = "start_ret"
                  /\ UNCHANGED << thrVars, queueVars, qmutex, running_flag,
                                  next_thread_id, running, wpc, wsched,
                                  nthreads, cur, warg, carg, ctl, ntasks,
                                  cfgVars, crashed >>
        /\ \A i \in WorkerIds : nthreads'[i] > nthreads[i] => ~running_flag
      ]_vars

\* The part of C15 about calls that find the flag set.
C15_StartOnRunningNoop ==
    [][ \A c \in Callers :
          StartCallRunning(c) =>
              /\ cpc'[c] = "start_ret"
              /\ UNCHANGED << thrVars, queueVars, qmutex, running_flag,
                              next_thread_id, running, wpc, wsched,
                              nthreads, cur, warg, carg, ctl, ntasks,
                              cfgVars, crashed >> ]_vars

\* C16: create(n) returns a scheduler exactly when 1 <= n <= 64 and the
\* allocations succeed, and otherwise returns NULL and creates nothing; a
\* created scheduler is not running, has next id 1, an empty ready queue,
\* empty running slots and worker_ids[i] = i.
C16_CreateValidates ==
    [][ \A c \in Callers, n \in CreateArgs, ok \in BOOLEAN :
          SchedulerCreate(c, n, ok) =>
              /\ handle' = "valid" <=> (1 <= n /\ n <= 64 /\ ok)
              /\ handle' # "valid" =>
                    /\ handle' = "null"
                    /\ UNCHANGED << thrVars, queueVars, qmutex, running_flag,
                                    next_thread_id, running, num_workers,
                                    worker_ids, nthreads, wpc >>
              /\ handle' = "valid" =>
                    /\ num_workers' = n
                    /\ ~running_flag'
                    /\ next_thread_id' = 1
                    /\ head' = NULL /\ tail' = NULL /\ count' = 0
                    /\ QueueSeq' = << >>
                    /\ DOMAIN running' = 0 .. (n - 1)
                    /\ \A i \in 0 .. (n - 1) :
                          /\ running'[i] = NULL
                          /\ worker_ids'[i] = i
                          /\ nthreads'[i] = 0
      ]_vars

C16_Witness ==
    /\ handle = "valid"
    /\ num_workers = LWT_MAX_WORKERS
    /\ running_flag
    /\ \A i \in WorkerIds : nthreads[i] = 1

\* C17: lwt_create called with a NULL scheduler or a NULL function returns
\* NULL and leaves the scheduler as it was: no task is allocated or enqueued,
\* next_thread_id is not advanced and no worker is woken by a signal.
C17_CreateNullArgs ==
    [][ \A c \in Callers, s \in {"null", "valid"}, f \in BOOLEAN :
          ((s = "null" \/ ~f) /\ (s = "valid" => handle = "valid")
                /\ LwtCreate(c, s, f)) =>
             /\ cpc'[c] = "create_null"
             /\ UNCHANGED << thrVars, queueVars, qmutex, running_flag,
                             next_thread_id, running, wpc, ntasks, carg,
                             nthreads, handle, num_workers >> ]_vars

\* A caller has its NULL from lwt_create while the scheduler is valid and
\* running, one task is in the ready queue and another caller is in the
\* middle of its own lwt_create.
C17_Witness ==
    /\ handle = "valid" /\ running_flag /\ count = 1
    /\ \E c, d \in Callers :
          cpc[c] = "create_null" /\ cpc[d] \in {"add", "push", "link"}

\* C18: every created task gets an id that no other task of the scheduler
\* has, and the ids are 1, 2, 3, ... in the order in which the creators take
\* the scheduler mutex, whether the creator is an OS thread outside the
\* runtime or a running task; an id, once given, never changes.
C18_UniqueIncreasingIds ==
    [][ /\ \A t \in Tasks : state[t] # "NONE" => id'[t] = id[t]
        /\ ntasks' # ntasks =>
              /\ ntasks' = ntasks + 1
              /\ id'[ntasks'] = ntasks'
              /\ \A u \in 1 .. ntasks : id[u] < id'[ntasks']
              /\ next_thread_id' = id'[ntasks'] + 1 ]_vars

\* The ids in use are pairwise different.
C18_IdsDistinct ==
    \A t, u \in 1 .. ntasks : t # u => id[t] # id[u]

\* Main and a running task are both inside lwt_create, each with its id, and
\* every id up to MaxTasks has been given.
C18_Witness ==
    /\ ntasks = MaxTasks
    /\ cpc[Main] \in {"add", "push", "link", "signal"}
    /\ \E w \in Workers :
          /\ wpc[w] = "func"
          /\ cpc[TaskCaller(w)] \in {"add", "push", "link", "signal"}
          /\ id[carg[TaskCaller(w)]] # id[carg[Main]]

\* Caller c enters or leaves lwt_yield, lwt_sleep or lwt_current.
OutsideCall(c) ==
    \/ cpc[c] = "idle" /\ cpc'[c] \in {"yield", "sleep", "current"}
    \/ cpc[c] \in {"yield", "sleep", "current"} /\ cpc'[c] = "idle"

\* C19: lwt_yield, lwt_sleep and lwt_current called by an OS thread that runs
\* no task change no task, queue, scheduler or worker state: nothing is
\* enqueued, no running slot is written, no worker is woken or switched, and
\* no other OS thread is held up; lwt_current returns NULL.
C19_OutsideCallsNoop ==
    [][ \A c \in Callers : OutsideCall(c) =>
          /\ UNCHANGED << thrVars, queueVars, qmutex, running_flag,
                          next_thread_id, running, wpc, wsched, nthreads, cur,
                          warg, ntasks, cfgVars, crashed >>
          /\ \A d \in ApiThreads \ {c} : cpc'[d] = cpc[d]
          /\ cpc'[c] = "current" => carg'[c] = NULL ]_vars

\* One OS thread is in lwt_sleep's nanosleep and another is back from
\* lwt_yield, while the scheduler is running with a task in the ready queue.
C19_Witness ==
    /\ running_flag /\ count >= 1 /\ ~crashed
    /\ \E c, d \in Callers : cpc[c] = "sleep" /\ cpc[d] = "yield"

\* The value lwt_current has returned to an OS thread that runs no task.
C19_CurrentReturnsNull ==
    \A c \in Callers : cpc[c] = "current" => carg[c] = NULL

\* C20: lwt_join(u) called by a task when u is already FINISHED returns at
\* once, with no context switch and no change of state: the caller stays
\* RUNNING and the current task of its worker, u's waiting link is not set,
\* and the ready queue is unchanged.
C20_JoinFinishedNoop ==
    [][ \A w \in Workers, u \in Tasks :
          (TaskJoin(w, u) /\ state[u] = "FINISHED") =>
             /\ UNCHANGED << state, next, waiting, ctx, queueVars, running,
                             wpc, cur, warg >>
             /\ state'[cur'[w]] = "RUNNING"
             /\ wpc'[w] = "func"
             /\ running'[IdOf(w)] = cur'[w]
             /\ waiting'[u] = NULL ]_vars

\* A task that has made its one call and was never switched out since its
\* first dispatch, while another task is FINISHED: the call was a lwt_join
\* that returned at once (lwt_yield and lwt_sleep always switch).
C20_Witness ==
    \E w \in Workers :
        /\ wpc[w] = "func" /\ state[cur[w]] = "RUNNING"
        /\ ops[cur[w]] = MaxOps /\ ctx[cur[w]].pos = "entry"
        /\ Executing(cur[w]) = {w}
        /\ \A v \in Workers : cur[v] = cur[w] => v = w
        /\ \E u \in 1 .. ntasks : state[u] = "FINISHED" /\ waiting[u] = NULL

\* The caller of the call that just returned has been told of a failure:
\* lwt_scheduler_create and lwt_create by their NULL; lwt_scheduler_start
\* would need a result, which a void function does not have.
FailureReported(c) ==
    \/ cpc'[c] = "create_null"
    \/ handle = "none" /\ handle' = "null"

\* C21: every resource-exhaustion failure (no memory for a task or its stack,
\* no context, a failed mutex, condition variable or queue initialisation, a
\* failed pthread_create in start) is reported to the caller of the failing
\* call, and what the call had built is rolled back before it returns: no
\* task allocated or enqueued, no scheduler, no worker started and the
\* scheduler not left running.
C21_ExhaustionReported ==
    [][ \A c \in Callers :
          /\ CreateFails(c) =>
                /\ FailureReported(c)
                /\ UNCHANGED << thrVars, queueVars, next_thread_id, ntasks,
                                wpc >>
          /\ (\E n \in CreateArgs : SchedulerCreate(c, n, FALSE)) =>
                /\ FailureReported(c)
                /\ UNCHANGED << thrVars, queueVars, running_flag,
                                num_workers, nthreads, wpc >>
          /\ (\E i \in FailingWorkers : StartSetFails(c, i)) =>
                /\ FailureReported(c)
                /\ UNCHANGED << running_flag, nthreads, wpc >> ]_vars

\* The part of C21 on lwt_create and lwt_scheduler_create alone.
C21_CreateFailuresRolledBack ==
    [][ \A c \in Callers :
          /\ CreateFails(c) =>
                /\ FailureReported(c)
                /\ UNCHANGED << thrVars, queueVars, next_thread_id, ntasks,
                                wpc >>
          /\ (\E n \in CreateArgs : SchedulerCreate(c, n, FALSE)) =>
                /\ FailureReported(c)
                /\ UNCHANGED << thrVars, queueVars, running_flag,
                                num_workers, nthreads, wpc >> ]_vars

\* C22: once every spawned task is FINISHED and the scheduler has been
\* stopped and destroyed through the public API, no stack that lwt_create
\* allocated is still allocated.
C22_StacksReleased ==
    (/\ handle = "freed"
     /\ \A t \in 1 .. ntasks : state[t] = "FINISHED") =>
        \A t \in Tasks : stack[t] = NULL

\* No step ever frees the stack of a task that lwt_create returned.
C22_StackNeverFreed ==
    [][ \A t \in Tasks : stack[t] # NULL => stack'[t] = stack[t] ]_vars

\* The lifecycle of thread.h's lwt_state_t, with the allocation in front.
Lifecycle ==
    { << "NONE", "NEW" >>, << "NEW", "READY" >>, << "READY", "RUNNING" >>,
      << "RUNNING", "READY" >>, << "RUNNING", "BLOCKED" >>,
      << "BLOCKED", "READY" >>, << "RUNNING", "FINISHED" >> }

\* C23: in every interleaving, every change of a task's state is NEW -> READY
\* (lwt_create), READY -> RUNNING (dispatch), RUNNING -> READY (yield),
\* RUNNING -> BLOCKED (join, sleep), BLOCKED -> READY (wake-up) or
\* RUNNING -> FINISHED (the entry function returned), and nothing else.
C23_LifecycleTransitions ==
    [][ \A t \in Tasks :
          state'[t] # state[t] => << state[t], state'[t] >> \in Lifecycle ]_vars

\* One task is FINISHED, one is BLOCKED, and one is READY again after the one
\* call it made.
C23_Witness ==
    \E a, b, c \in 1 .. ntasks :
        /\ state[a] = "FINISHED" /\ state[b] = "BLOCKED"
        /\ state[c] = "READY" /\ ops[c] = MaxOps /\ InQueue(c)

\* C24: pushes and pops of the ready queue exclude one another, so that with
\* lwt_create running beside worker pops and yield pushes no pushed task is
\* lost (the tasks pushed and not popped since are the ones reachable from
\* head, in push order) and count is the number of tasks reachable from head.
C24_QueueConsistent ==
    /\ pushed = QueueSeq
    /\ count = Len(QueueSeq)

\* The sections of an API caller's code that run between a lock and an unlock
\* of the scheduler mutex, as the positions before and after them:
\* lwthread.c:55-57 and 72-75, thread.c:82-84, scheduler.c:113-115.
LockedCallerSections ==
    { << "start_set", "idle" >>, << "stop_set", "stop_join" >>,
      << "dstop_set", "dstop_join" >>, << "idle", "add" >>,
      << "signal", "idle" >> }

\* The same for a worker and the task it runs: scheduler.c:31-45,
\* lwthread.c:129-143, 170-185, 228-236 and 243-247, thread.c:25-34.
LockedWorkerSections ==
    { << "top", "func" >>, << "top", "exited" >>, << "top", "wait" >>,
      << "func", "yswap" >>, << "func", "jswap" >>, << "func", "sleeping" >>,
      << "sleeping", "sswap" >>, << "func", "fyield" >>,
      << "fyield", "fswap" >> }

\* The step is a section that holds the scheduler mutex.
UnderSchedulerMutex ==
    \/ \E c \in ApiThreads : << cpc[c], cpc'[c] >> \in LockedCallerSections
    \/ \E w \in Workers : << wpc[w], wpc'[w] >> \in LockedWorkerSections

\* The step is the state write of lwt_scheduler_add_thread, scheduler.c:107.
NewToReady ==
    \E c \in ApiThreads :
        /\ cpc[c] = "add" /\ cpc'[c] = "push"
        /\ state' = [state EXCEPT ![carg[c]] = "READY"]
        /\ state[carg[c]] = "NEW"
        /\ UNCHANGED << waiting, running, running_flag, next_thread_id >>

\* C25: every write to a task's state, to a worker's running slot, to a
\* waiting (joiner) link, to running_flag and to next_thread_id is made while
\* the writer holds the scheduler mutex, except the NEW -> READY write of
\* lwt_scheduler_add_thread.
C25_WritesUnderMutex ==
    [][ (\/ state' # state \/ running' # running \/ waiting' # waiting
         \/ running_flag' # running_flag
         \/ next_thread_id' # next_thread_id) =>
            (UnderSchedulerMutex \/ NewToReady) ]_vars

\* Every kind of write has been made: the flag is set, an id is given, a task
\* sits in a running slot, one is BLOCKED behind a waiting link, one is
\* FINISHED.
C25_Witness ==
    /\ running_flag /\ next_thread_id = MaxTasks + 1
    /\ \E i \in WorkerIds : running[i] # NULL
    /\ \E t \in 1 .. ntasks : waiting[t] # NULL /\ state[waiting[t]] = "BLOCKED"
    /\ \E t \in 1 .. ntasks : state[t] = "FINISHED"

\* C26: FINISHED is absorbing.  The trampoline's final yield enqueues nothing
\* and goes to the swapcontext into the worker's dispatch context; a task
\* that is FINISHED stays FINISHED, is never pushed to the ready queue and is
\* never dispatched again.
C26_FinishedAbsorbing ==
    [][ /\ \A w \in Workers :
              FinalYield(w) =>
                 /\ wpc'[w] = "fswap"
                 /\ UNCHANGED << state, next, queueVars >>
        /\ \A w \in Workers :
              (wpc[w] = "fswap" /\ wpc'[w] # "fswap") => wpc'[w] = "top"
        /\ \A t \in Tasks :
              state[t] = "FINISHED" =>
                 /\ state'[t] = "FINISHED"
                 /\ ~InQueue(t)'
                 /\ Occurrences(pushed', t) = 0
                 /\ \A w \in Workers :
                       (Dispatches(w) /\ head # NULL /\ running_flag) =>
                          cur'[w] # t ]_vars

\* A task is FINISHED, its final yield has switched to the worker, and the
\* workers have gone on to run another task.
C26_Witness ==
    \E t \in 1 .. ntasks :
        /\ state[t] = "FINISHED" /\ ctx[t].pos = "ret"
        /\ Executing(t) = {}
        /\ \E w \in Workers : wpc[w] = "func" /\ cur[w] # t /\ ops[cur[w]] = MaxOps

\* Worker w is inside the nanosleep of lwt_sleep, lwthread.c:240.
Sleeping(w) == wpc[w] = "sleeping"

\* What holds of the task and the worker throughout the wait.
SleepingQuiet(w) ==
    /\ state[cur[w]] = "BLOCKED"
    /\ ~InQueue(cur[w])
    /\ Occurrences(pushed, cur[w]) = 0
    /\ running[IdOf(w)] = NULL
    /\ \A v \in Workers \ {w} :
          (wpc[v] = "top" /\ wsched[v] /\ ~crashed) => ENABLED WorkerLoop(v)

\* C27: for lwt_sleep called inside a task: throughout the wait the task is
\* BLOCKED and not in the ready queue, its worker's running slot is empty and
\* the scheduler mutex is free (the other workers can dispatch); the sleeping
\* worker dispatches nothing until the wait ends; on wake the task is made
\* READY and enqueued exactly once, with one signal, before the switch to the
\* dispatch context.
C27_SleepProtocol ==
    [][ \A w \in Workers :
          /\ Sleeping(w) => SleepingQuiet(w)
          /\ Sleeping(w)' => SleepingQuiet(w)'
          /\ (Sleeping(w) /\ Sleeping(w)') => cur'[w] = cur[w]
          /\ (Sleeping(w) /\ ~Sleeping(w)') =>
                /\ wpc'[w] = "sswap" /\ cur'[w] = cur[w]
                /\ state' = [state EXCEPT ![cur[w]] = "READY"]
                /\ QueueSeq' = Append(QueueSeq, cur[w])
                /\ pushed' = Append(pushed, cur[w])
                /\ Cardinality({v \in Workers :
                                  wpc[v] = "wait" /\ wpc'[v] = "top"}) <= 1
          /\ (wpc[w] = "sswap" /\ wpc'[w] # "sswap") => wpc'[w] = "top" ]_vars

\* C27 for the wake-ups that find the ready queue as its pushes and pops left
\* it (no lwt_create has raced with a pop, see C24).
C27_SleepProtocolIntactQueue ==
    [][ \A w \in Workers :
          /\ Sleeping(w) => SleepingQuiet(w)
          /\ Sleeping(w)' => SleepingQuiet(w)'
          /\ (Sleeping(w) /\ Sleeping(w)') => cur'[w] = cur[w]
          /\ (Sleeping(w) /\ ~Sleeping(w)') =>
                /\ wpc'[w] = "sswap" /\ cur'[w] = cur[w]
                /\ state' = [state EXCEPT ![cur[w]] = "READY"]
                /\ C24_QueueConsistent => QueueSeq' = Append(QueueSeq, cur[w])
                /\ pushed' = Append(pushed, cur[w])
                /\ Cardinality({v \in Workers :
                                  wpc[v] = "wait" /\ wpc'[v] = "top"}) <= 1
          /\ (wpc[w] = "sswap" /\ wpc'[w] # "sswap") => wpc'[w] = "top" ]_vars

\* Worker w's task leaves the processor: lwt_yield, lwt_join, lwt_sleep or
\* the trampoline's final yield clears the running slot.
Suspends(w) ==
    /\ wpc[w] \in {"func", "fyield"}
    /\ wpc'[w] \in {"yswap", "jswap", "sleeping", "fswap"}

\* Worker w's swapcontext to main_contexts[worker_id].
SwitchesBack(w) == wpc[w] \in SwapPcs /\ wpc'[w] # wpc[w]

\* The slot that a suspension clears is the one of the worker that dispatched
\* the task last and runs it now, and no other slot is touched; the switch
\* goes to the top of that worker's own loop.
OwnSlotAndLoop(w) ==
    /\ Suspends(w) =>
          /\ running[IdOf(w)] = cur[w]
          /\ running' = [running EXCEPT ![IdOf(w)] = NULL]
    /\ SwitchesBack(w) => wpc'[w] = "top"

\* C28: a task that suspends (yield, join, sleep, termination) switches to
\* the dispatch context of the worker that dispatched it last, the OS thread
\* it runs on, also after it has moved between workers; the running slot
\* cleared is that worker's; and a worker's dispatch context is never resumed
\* on another OS thread: the context in main_contexts[id] that a swapcontext
\* resumes was saved by the OS thread that resumes it.
C28_OwnDispatchContext ==
    [][ \A w \in Workers :
          /\ OwnSlotAndLoop(w)
          /\ SwapOut(w) => main_contexts[IdOf(w)] = w /\ ~crashed' ]_vars

\* A task that worker 0 dispatched first and worker 1 dispatched after it is
\* about to switch back on worker 1, whose dispatch context worker 1 saved.
C28_Witness ==
    \E t \in Tasks :
        /\ cur[0] = t /\ wpc[0] \in {"top", "wait"}
        /\ cur[1] = t /\ wpc[1] \in SwapPcs
        /\ main_contexts[1] = 1 /\ main_contexts[0] = 0

\* A task is pushed to the ready queue.
PushStep == Len(pushed') > Len(pushed)

\* pthread_cond_signal takes effect: a worker leaves pthread_cond_wait if one
\* is there.
SignalStep == Waiters = {} \/ \E v \in Waiters : wpc'[v] = "top"

\* The workers a step takes out of pthread_cond_wait by signal or broadcast.
WokenBy == {v \in Workers : wpc[v] = "wait" /\ wpc'[v] = "top"}

\* Every push is paired with a signal: lwt_scheduler_add_thread signals in its
\* next step, the runtime's own pushes (yield, sleep, termination with a
\* joiner) signal in the same critical section; a step that wakes more than
\* one worker is the broadcast of lwt_scheduler_stop.
PushesSignalled ==
    /\ PushStep =>
          \/ \E c \in ApiThreads : cpc[c] = "link" /\ cpc'[c] = "signal"
          \/ SignalStep
    /\ \A c \in ApiThreads :
          (cpc[c] = "signal" /\ cpc'[c] # "signal") => SignalStep
    /\ Cardinality(WokenBy) > 1 =>
          /\ \E c \in Callers : cpc[c] \in {"stop_set", "dstop_set"}
          /\ ~running_flag'

\* Worker w is blocked in pthread_cond_wait while the scheduler is running
\* and a task that was pushed has not been popped.
BlockedOnNonEmpty(w) ==
    /\ ~crashed /\ running_flag
    /\ wpc[w] = "wait"
    /\ pushed # << >>

\* The same with the worker's own test of the queue, ready_queue.head.
BlockedOnHead(w) ==
    /\ ~crashed /\ running_flag
    /\ wpc[w] = "wait"
    /\ head # NULL

\* C29: no wake-up is lost: every push to the ready queue is followed by a
\* signal, only stop broadcasts, and no worker stays in pthread_cond_wait
\* forever while the scheduler is running and the ready queue is non-empty.
C29_NoLostWakeup ==
    /\ [][PushesSignalled]_vars
    /\ \A w \in 0 .. (MaxStarts * NumWorkers - 1) :
          BlockedOnNonEmpty(w) ~> ~BlockedOnNonEmpty(w)

\* C29 with "non-empty" as the worker tests it (head # NULL).
C29_NoLostWakeupByHead ==
    /\ [][PushesSignalled]_vars
    /\ \A w \in 0 .. (MaxStarts * NumWorkers - 1) :
          BlockedOnHead(w) ~> ~BlockedOnHead(w)

\* Task b is blocked in lwt_join (BLOCKED, and not by lwt_sleep) and no
\* back-link refers to it: a later joiner has replaced it in its target.
Dropped(b) ==
    /\ state[b] = "BLOCKED"
    /\ \A a \in Tasks : waiting[a] # b
    /\ ~\E w \in Workers : wpc[w] = "sleeping" /\ cur[w] = b

\* Task c, on worker w, calls lwt_join on the unfinished task a that already
\* has another joiner.
JoinsJoined(w, a) ==
    /\ TaskJoin(w, a)
    /\ state[a] # "FINISHED"
    /\ waiting[a] \notin {NULL, cur[w]}

\* C30: concurrent joiners on one target are not prevented: when C calls
\* lwt_join(A) while B is blocked in lwt_join(A), C replaces B in A's
\* back-link and both are blocked; when A finishes, the last joiner alone is
\* made READY and pushed; and B, once dropped from the back-link, stays
\* BLOCKED and out of the ready queue in every later state.
C30_LastJoinerOnly ==
    [][ /\ \A w \in Workers, a \in Tasks :
              JoinsJoined(w, a) =>
                  /\ waiting'[a] = cur[w]
                  /\ state'[cur[w]] = "BLOCKED" /\ wpc'[w] = "jswap"
                  /\ state'[waiting[a]] = "BLOCKED"
                  /\ \A b \in Tasks : b = waiting[a] => Dropped(b)'
        /\ \A w \in Workers :
              ReturnWakes(w) =>
                  LET a == cur[w]
                      c == waiting[cur[w]] IN
                  /\ state'[a] = "FINISHED"
                  /\ state'[c] = "READY"
                  /\ pushed' = Append(pushed, c)
                  /\ \A b \in Tasks \ {c} : state[b] = "BLOCKED" => state'[b] = "BLOCKED"
        /\ \A b \in Tasks :
              Dropped(b) =>
                  /\ Dropped(b)'
                  /\ state'[b] = "BLOCKED"
                  /\ ~InQueue(b)'
                  /\ Occurrences(pushed', b) = 0
      ]_vars

\* A has finished, its last joiner C is READY in the ready queue with the
\* context lwt_join saved, and the first joiner B is still blocked on A.
C30_Witness ==
    \E a, b, c \in Tasks :
        /\ a # b /\ b # c /\ a # c
        /\ state[a] = "FINISHED"
        /\ state[c] = "READY" /\ InQueue(c)
        /\ ctx[c] = [pos |-> "join_ret", tgt |-> a]
        /\ b \in Joiners(a) /\ Dropped(b)

\* What holds of the workers in every state: no worker has its scheduler, so
\* none can enter the part of the loop under the scheduler mutex (lines
\* 31-50); a created worker is at the top of its loop, where its only step is
\* the sleep of lines 26-30; no task is current on a worker, in a running
\* slot or RUNNING.
WorkersSpin ==
    /\ \A w \in Workers :
          /\ ~wsched[w]
          /\ wpc[w] \in {"off", "top"}
          /\ cur[w] = NULL
          /\ ~ENABLED WorkerLoop(w)
          /\ (wpc[w] = "top" /\ ~crashed) => ENABLED WorkerSpin(w)
    /\ \A i \in WorkerIds : running[i] = NULL /\ main_contexts[i] = NoWorker
    /\ \A t \in Tasks : state[t] \notin {"RUNNING", "BLOCKED", "FINISHED"}

\* What holds of every step: a created worker stays at the top of its loop
\* (it neither waits nor exits), no OS thread of a worker ends, and no task
\* is popped from the ready queue.
WorkersStay ==
    /\ \A w \in Workers : wpc[w] = "top" => wpc'[w] = "top"
    /\ \A i \in WorkerIds : nthreads'[i] >= nthreads[i]
    /\ Len(pushed') >= Len(pushed)
    /\ \A t \in Tasks : state[t] = "READY" => state'[t] = "READY"

\* C31: in this source a worker OS thread created by start never obtains its
\* scheduler: its local scheduler pointer stays NULL, so it loops sleeping
\* forever; it never acquires the scheduler mutex, never pops or dispatches a
\* task, never observes the running flag and never exits.
C31_WorkersNeverRun == []WorkersSpin /\ [][WorkersStay]_vars

\* lwt_scheduler_stop has cleared the running flag and waits in pthread_join
\* while every worker of the start is alive at the top of its loop and a READY
\* task sits in the ready queue.
C31_Witness ==
    /\ ~running_flag
    /\ \E c \in Callers : cpc[c] = "stop_join"
    /\ \A i \in WorkerIds : nthreads[i] >= 1 /\ wpc[i] = "top"
    /\ head # NULL /\ state[head] = "READY"

=============================================================================
